---- MODULE Spec2Model ----
(***************************************************************************)
(* Model of register_ou_control_tower.py: the batch registration of        *)
(* organizational units under AWS Control Tower.  The program is one       *)
(* sequential process; every action below is one interaction with the      *)
(* outside (a control-plane call or a sleep) together with the local       *)
(* computation that follows it up to the next interaction.  The control    *)
(* plane is an opaque collaborator: each call draws its response from the  *)
(* set of responses the client library can produce.                        *)
(***************************************************************************)
EXTENDS Integers, Sequences, FiniteSets, TLC

(* ---------------- bounds of the model ---------------- *)
MaxOUs == 2
MaxBaselines == 2

(* ---------------- program constants ---------------- *)
MaxEnableAttempts == 20
MaxPollAttempts == 40
BackoffInterval == 60
PollInterval == 30

None == "None"

(* ---------------- strings with a substring test ---------------- *)
(* A text is a sequence of words; Contains is Python's `sub in s`. *)
Contains(sub, s) ==
    \E k \in 0..(Len(s) - Len(sub)) :
        \A j \in 1..Len(sub) : s[k + j] = sub[j]

AlreadyGoverned == <<"already", "governed">>
AnotherInProgress == <<"another", "operation", "is", "in", "progress">>
ArnMarker == <<"arn">>

(* ---------------- inputs ---------------- *)
OURecords ==
    { [id |-> "ou-1", arn |-> <<"arn", "ou", "1">>],
      [id |-> "ou-2", arn |-> <<"arn", "ou", "2">>] }

RECURSIVE SeqsUpTo(_, _)
SeqsUpTo(S, n) ==
    IF n = 0 THEN { <<>> }
    ELSE LET shorter == SeqsUpTo(S, n - 1)
         IN  shorter \cup { Append(s, x) : s \in { t \in shorter : Len(t) = n - 1 }, x \in S }

(* The program never looks inside an OU record, so the two records are      *)
(* interchangeable: only the lists that start with ou-1 are enumerated.      *)
OULists ==
    { l \in SeqsUpTo(OURecords, MaxOUs) : Len(l) = 0 \/ l[1].id = "ou-1" }

(* ---------------- control-plane responses ---------------- *)
BaselineEntries ==
    { [name |-> "AWSControlTowerBaseline", arn |-> <<"arn", "baseline", "controltower">>],
      [name |-> "IdentityCenterBaseline", arn |-> <<"arn", "baseline", "identitycenter">>] }

EnabledEntries ==
    { [arn |-> <<"arn", "enabledbaseline", "identitycenter">>],
      [arn |-> <<"enabledbaseline", "legacy">>] }

ListResponses(Entries) ==
    { [kind |-> "ok", list |-> l] : l \in SeqsUpTo(Entries, MaxBaselines) }
    \cup { [kind |-> "ClientError"], [kind |-> "OtherError"] }

OpIds == { "op-1", "op-2" }

ErrorCodes == { "ConflictException", "ThrottlingException", "AccessDeniedException" }

ErrorMessages ==
    { <<"target">> \o AlreadyGoverned,
      AnotherInProgress \o <<"for", "target">>,
      AlreadyGoverned \o AnotherInProgress,
      <<"resource", "conflict">>,
      <<>> }

EnableResponses ==
    { [kind |-> "ok", operationIdentifier |-> o] : o \in OpIds \cup { None, "", "IN_PROGRESS" } }
    \cup { [kind |-> "ClientError", code |-> c, message |-> m] : c \in ErrorCodes, m \in ErrorMessages }
    \cup { [kind |-> "OtherError"] }

Statuses == { "SUCCEEDED", "FAILED", "IN_PROGRESS", "UNKNOWN", "", None }

PollResponses ==
    { [kind |-> "ok", status |-> s] : s \in Statuses }
    \cup { [kind |-> "ClientError"], [kind |-> "OtherError"] }

(* Python truthiness of an optional string *)
Truthy(v) == v # None /\ v # ""

(* ---------------- pure functions of the program ---------------- *)
(* the resolvers raise Exception("... not found") when no entry matches *)
NotFound == <<"NotFound">>

(* no early return: a later entry of the same name overwrites the result *)
RECURSIVE FirstBaselineFrom_LastWins(_, _)
FirstBaselineFrom_LastWins(baselines, k) ==
    IF k > Len(baselines) THEN NotFound
    ELSE LET later == FirstBaselineFrom_LastWins(baselines, k + 1)
         IN  IF later # NotFound THEN later
             ELSE IF baselines[k].name = "AWSControlTowerBaseline" THEN baselines[k].arn
             ELSE NotFound

RECURSIVE FirstBaselineFrom(_, _)
FirstBaselineFrom(baselines, k) ==
    IF k > Len(baselines) THEN NotFound
    ELSE IF baselines[k].name = "AWSControlTowerBaseline" THEN baselines[k].arn
    ELSE FirstBaselineFrom(baselines, k + 1)

get_baseline_identifier(baselines) == FirstBaselineFrom(baselines, 1)

RECURSIVE FirstEnabledFrom(_, _)
FirstEnabledFrom(enabledBaselines, k) ==
    IF k > Len(enabledBaselines) THEN NotFound
    ELSE IF Contains(ArnMarker, enabledBaselines[k].arn) THEN enabledBaselines[k].arn
    ELSE FirstEnabledFrom(enabledBaselines, k + 1)

get_identity_center_enabled_baseline_arn(enabledBaselines) ==
    FirstEnabledFrom(enabledBaselines, 1)

(* enable_baseline: the value returned, or "RAISE" when the error is re-raised *)
Raise == "RAISE"

(* the two conflict branches are swapped *)
enable_baseline_SwappedConflicts(resp) ==
    IF resp.kind = "ok" THEN resp.operationIdentifier
    ELSE IF resp.kind = "ClientError" THEN
        IF resp.code = "ConflictException" THEN
            IF Contains(AlreadyGoverned, resp.message) THEN "IN_PROGRESS"
            ELSE IF Contains(AnotherInProgress, resp.message) THEN None
            ELSE Raise
        ELSE Raise
    ELSE Raise

(* the final raise is missing: an unrecognized error falls through and returns None *)
enable_baseline_NoReraise(resp) ==
    IF resp.kind = "ok" THEN resp.operationIdentifier
    ELSE IF resp.kind = "ClientError" THEN
        IF resp.code = "ConflictException" THEN
            IF Contains(AlreadyGoverned, resp.message) THEN None
            ELSE IF Contains(AnotherInProgress, resp.message) THEN "IN_PROGRESS"
            ELSE None
        ELSE None
    ELSE Raise

(* the test of the error code is missing: any ClientError is classified by its message *)
enable_baseline_NoCodeTest(resp) ==
    IF resp.kind = "ok" THEN resp.operationIdentifier
    ELSE IF resp.kind = "ClientError" THEN
        IF Contains(AlreadyGoverned, resp.message) THEN None
        ELSE IF Contains(AnotherInProgress, resp.message) THEN "IN_PROGRESS"
        ELSE Raise
    ELSE Raise

(* the "already governed" branch is missing: that conflict is re-raised *)
enable_baseline_NoGovernedBranch(resp) ==
    IF resp.kind = "ok" THEN resp.operationIdentifier
    ELSE IF resp.kind = "ClientError" THEN
        IF resp.code = "ConflictException" THEN
            IF Contains(AnotherInProgress, resp.message)
               /\ ~Contains(AlreadyGoverned, resp.message) THEN "IN_PROGRESS"
            ELSE Raise
        ELSE Raise
    ELSE Raise

enable_baseline(resp) ==
    IF resp.kind = "ok" THEN resp.operationIdentifier
    ELSE IF resp.kind = "ClientError" THEN
        IF resp.code = "ConflictException" THEN
            IF Contains(AlreadyGoverned, resp.message) THEN None
            ELSE IF Contains(AnotherInProgress, resp.message) THEN "IN_PROGRESS"
            ELSE Raise
        ELSE Raise
    ELSE Raise


(* the test against 'IN_PROGRESS' is missing: any truthy value is returned as an id *)
WaitDecision_NoInProgressTest(r) ==
    IF r = Raise THEN "retry"
    ELSE IF Truthy(r) THEN "return_id"
    ELSE IF r = None THEN "return_none"
    ELSE "retry"

(* lines 78-82: what the backoff loop does with enable_baseline's value *)
WaitDecision(r) ==
    IF r = Raise THEN "retry"
    ELSE IF Truthy(r) /\ r # "IN_PROGRESS" THEN "return_id"
    ELSE IF r = None THEN "return_none"
    ELSE "retry"

(* off by one: the loop makes one pass more than max_attempts *)
BackoffExhausted_OneMore(n) == n > MaxEnableAttempts

(* line 73: range(max_attempts) is exhausted after the attempt-th pass *)
BackoffExhausted(n) == n >= MaxEnableAttempts

(* the two terminal statuses are swapped *)
PollDecision_SwappedTerminal(resp) ==
    IF resp.kind = "ok" THEN
        IF Truthy(resp.status) THEN
            IF resp.status = "SUCCEEDED" THEN "return_false"
            ELSE IF resp.status = "FAILED" THEN "return_true"
            ELSE "sleep"
        ELSE "sleep"
    ELSE IF resp.kind = "ClientError" THEN "sleep"
    ELSE "propagate"

(* lines 50-66: what the poller does with one get_baseline_operation answer *)
PollDecision(resp) ==
    IF resp.kind = "ok" THEN
        IF Truthy(resp.status) THEN
            IF resp.status = "SUCCEEDED" THEN "return_true"
            ELSE IF resp.status = "FAILED" THEN "return_false"
            ELSE "sleep"
        ELSE "sleep"
    ELSE IF resp.kind = "ClientError" THEN "sleep"
    ELSE "propagate"

(* off by one: the poller makes one poll more than max_attempts *)
PollExhausted_OneMore(n) == n > MaxPollAttempts

(* line 49: range(max_attempts) is exhausted after the poll_attempt-th pass *)
PollExhausted(n) == n >= MaxPollAttempts

(* register_ou polls whatever the backoff loop returned *)
NeedsPolling_Always(operation_id_value) == TRUE

(* lines 94-103: register_ou's branch on the backoff loop's value *)
NeedsPolling(operation_id_value) == Truthy(operation_id_value)

(* the exit on failure is missing: the loop goes on whatever register_ou returned *)
DriverStops_Never(ok) == FALSE

(* the driver stops only when register_ou returned nothing at all *)
DriverStops_OnlyOnNone(ok) == ok = "none"

(* the test on success is inverted *)
DriverStops_Inverted(ok) == ok = "True"

(* lines 125-127: the batch stops unless register_ou returned True *)
DriverStops(ok) == ok # "True"

(* ---------------- what the control plane answered (observer's view) ---------------- *)
EnableClass(resp) ==
    IF resp.kind = "ok" THEN
        IF resp.operationIdentifier = None THEN "accepted_noid"
        ELSE IF resp.operationIdentifier \in OpIds THEN "accepted"
        ELSE "accepted_oddid"
    ELSE IF resp.kind = "ClientError" /\ resp.code = "ConflictException"
            /\ Contains(AlreadyGoverned, resp.message) THEN "already_governed"
    ELSE IF resp.kind = "ClientError" /\ resp.code = "ConflictException"
            /\ Contains(AnotherInProgress, resp.message) THEN "conflict_in_progress"
    ELSE "error"

PollClass(resp) ==
    IF resp.kind = "ok" THEN
        IF resp.status = "SUCCEEDED" THEN "succeeded"
        ELSE IF resp.status = "FAILED" THEN "failed"
        ELSE "nonterminal"
    ELSE IF resp.kind = "ClientError" THEN "client_error"
    ELSE "other_error"

(* ---------------- state ---------------- *)
VARIABLES
    pc,                  \* position of the process
    ous,                 \* the input list of OU records
    i,                   \* position in ous of the OU being registered
    baseline_identifier, \* register_ous local, line 112
    identity_center_arn, \* register_ous local, line 113
    attempt,             \* wait_for_in_progress_operations loop variable
    operation_id,        \* register_ou local, line 91
    poll_attempt,        \* check_operation_status loop variable
    success,             \* register_ous local, line 122: "none", "True", "False"
    exit_status,         \* process status once pc = "exited"
    outcome,             \* per position: "pending", "registered", "skipped", "failed"
    failure,             \* why the run failed, "none" if it has not
    req,                 \* the last request sent to the control plane
    nEnable,             \* enable-baseline requests sent for the current OU
    nPoll,               \* get-baseline-operation requests sent for the current OU
    nSleep,              \* sleeps taken for the current OU
    slept,               \* time slept for the current OU
    lastEnable,          \* class of the last enable answer for the current OU
    answeredId,          \* operationIdentifier of the last enable answer, None if it had none
    priorEnable,         \* enable answers before the last: "conflicts", "errors" or "other"
    lastPoll,            \* class of the last poll answer for the current OU
    priorNonTerminal,    \* every poll answer before the last was a non-terminal status
    pollErrors,          \* a poll of the current OU raised a ClientError
    resolverCalls,       \* how often each of the two list calls was made in this run
    fnName,              \* SpecPure: the function under test, "none" in a run
    fnInput,             \* SpecPure: the value it is applied to
    fnOutput             \* SpecPure: the value it returned

vars == << pc, ous, i, baseline_identifier, identity_center_arn, attempt, operation_id,
           poll_attempt, success, exit_status, outcome, failure, req, nEnable, nPoll,
           nSleep, slept, lastEnable, answeredId, priorEnable, lastPoll, priorNonTerminal,
           pollErrors, resolverCalls, fnName, fnInput, fnOutput >>

pureVars == << fnName, fnInput, fnOutput >>
progvars == << ous, baseline_identifier, identity_center_arn, resolverCalls, pureVars >>
ouHistory == << nEnable, nPoll, nSleep, slept, lastEnable, answeredId, priorEnable, lastPoll,
                priorNonTerminal, pollErrors >>

NoReq == [api |-> "none", pos |-> 0, target |-> <<>>, baselineIdentifier |-> <<>>,
          baselineVersion |-> "", parameter |-> <<>>, operationIdentifier |-> ""]

Init ==
    /\ pc = "resolve_baseline"
    /\ ous \in OULists
    /\ i = 0
    /\ baseline_identifier = NotFound
    /\ identity_center_arn = NotFound
    /\ attempt = 0
    /\ operation_id = None
    /\ poll_attempt = 0
    /\ success = "none"
    /\ exit_status = 0
    /\ outcome = [p \in 1..Len(ous) |-> "pending"]
    /\ failure = "none"
    /\ req = NoReq
    /\ nEnable = 0
    /\ nPoll = 0
    /\ nSleep = 0
    /\ slept = 0
    /\ lastEnable = "none"
    /\ answeredId = None
    /\ priorEnable = "conflicts"
    /\ lastPoll = "none"
    /\ priorNonTerminal = TRUE
    /\ pollErrors = FALSE
    /\ resolverCalls = [list_baselines |-> 0, list_enabled_baselines |-> 0]
    /\ fnName = "none"
    /\ fnInput = <<>>
    /\ fnOutput = <<>>

(* the two resolved values are passed in each other's place *)
EnableRequest_SwappedIdentifiers(p, ou_arn, baseline_id, identity_arn) ==
    [api |-> "enable_baseline", pos |-> p, target |-> ou_arn,
     baselineIdentifier |-> identity_arn,
     baselineVersion |-> "4.0",
     parameter |-> baseline_id,
     operationIdentifier |-> ""]

(* lines 23-33: the enable-baseline request sent for the OU at position p *)
EnableRequest(p, ou_arn, baseline_id, identity_arn) ==
    [api |-> "enable_baseline", pos |-> p, target |-> ou_arn,
     baselineIdentifier |-> baseline_id,
     baselineVersion |-> "4.0",
     parameter |-> identity_arn,
     operationIdentifier |-> ""]

(* sys.exit(1), lines 116 and 127 *)
Exit(status, why) ==
    /\ pc' = "exited"
    /\ exit_status' = status
    /\ failure' = why

(* register_ou returns to the batch driver, lines 96-106 *)
Return(result, ok, why) ==
    /\ outcome' = [outcome EXCEPT ![i] = result]
    /\ success' = ok
    /\ failure' = why
    /\ pc' = "check"

(* isinstance(exc, cls) over the exception classes that reach register_ou: the  *)
(* plain Exception of line 86, botocore's ClientError and any other Exception  *)
IsInstance(exc, cls) == exc = cls \/ cls = "Exception"

(* the handler of register_ou narrowed to "except ClientError" *)
register_ou_Catches_ClientErrorOnly(exc) == IsInstance(exc, "ClientError")

(* line 104: "except Exception as e" in register_ou *)
register_ou_Catches(exc) == IsInstance(exc, "Exception")

(* an exception leaves the try block of register_ou, lines 92-106: the handler  *)
(* returns False; an exception it does not catch ends the process with status 1 *)
Raised(exc, why) ==
    IF register_ou_Catches(exc)
    THEN /\ Return("failed", "False", why)
         /\ UNCHANGED exit_status
    ELSE /\ Exit(1, "uncaught")
         /\ UNCHANGED << success, outcome >>

(* lines 109-116: first resolver *)
ResolveBaseline ==
    /\ pc = "resolve_baseline"
    /\ \E resp \in ListResponses(BaselineEntries) :
         LET r == IF resp.kind = "ok" THEN get_baseline_identifier(resp.list) ELSE NotFound
         IN  /\ req' = [NoReq EXCEPT !.api = "list_baselines"]
             /\ resolverCalls' = [resolverCalls EXCEPT !.list_baselines = @ + 1]
             /\ IF r = NotFound
                THEN /\ Exit(1, "resolve")
                     /\ UNCHANGED baseline_identifier
                ELSE /\ baseline_identifier' = r
                     /\ pc' = "resolve_identity_center"
                     /\ UNCHANGED << exit_status, failure >>
    /\ UNCHANGED << ous, i, identity_center_arn, attempt, operation_id, poll_attempt,
                    success, outcome, ouHistory, pureVars >>

(* lines 113-116: second resolver *)
ResolveIdentityCenter ==
    /\ pc = "resolve_identity_center"
    /\ \E resp \in ListResponses(EnabledEntries) :
         LET r == IF resp.kind = "ok"
                  THEN get_identity_center_enabled_baseline_arn(resp.list)
                  ELSE NotFound
         IN  /\ req' = [NoReq EXCEPT !.api = "list_enabled_baselines"]
             /\ resolverCalls' = [resolverCalls EXCEPT !.list_enabled_baselines = @ + 1]
             /\ IF r = NotFound
                THEN /\ Exit(1, "resolve")
                     /\ UNCHANGED << identity_center_arn, i >>
                ELSE /\ identity_center_arn' = r
                     /\ i' = 1
                     /\ pc' = "for_ou"
                     /\ UNCHANGED << exit_status, failure >>
    /\ UNCHANGED << ous, baseline_identifier, attempt, operation_id, poll_attempt,
                    success, outcome, ouHistory, pureVars >>

(* lines 118-124 and 88-93: the for loop takes the next OU and enters register_ou *)
DriverNext ==
    /\ pc = "for_ou"
    /\ IF i > Len(ous)
       THEN /\ Exit(0, "none")
            /\ UNCHANGED << attempt, operation_id, poll_attempt, success, ouHistory >>
       ELSE /\ pc' = "enable"
            /\ attempt' = 0
            /\ operation_id' = None
            /\ poll_attempt' = 0
            /\ success' = "none"
            /\ nEnable' = 0
            /\ nPoll' = 0
            /\ nSleep' = 0
            /\ slept' = 0
            /\ lastEnable' = "none"
            /\ answeredId' = None
            /\ priorEnable' = "conflicts"
            /\ lastPoll' = "none"
            /\ priorNonTerminal' = TRUE
            /\ pollErrors' = FALSE
            /\ UNCHANGED << exit_status, failure >>
    /\ UNCHANGED << progvars, i, outcome, req >>

(* lines 125-127: the driver inspects register_ou's result *)
DriverCheck ==
    /\ pc = "check"
    /\ IF DriverStops(success)
       THEN /\ Exit(1, failure)
            /\ UNCHANGED i
       ELSE /\ i' = i + 1
            /\ pc' = "for_ou"
            /\ UNCHANGED << exit_status, failure >>
    /\ UNCHANGED << progvars, attempt, operation_id, poll_attempt, success, outcome,
                    req, ouHistory >>

(* lines 73-81 with 21-45 and 94-103: one pass of the backoff loop up to its sleep *)
EnableAttempt ==
    /\ pc = "enable"
    /\ \E resp \in EnableResponses :
         LET r == enable_baseline(resp)
             d == WaitDecision(r)
         IN  /\ req' = EnableRequest(i, ous[i].arn, baseline_identifier, identity_center_arn)
             /\ nEnable' = nEnable + 1
             /\ answeredId' = (IF resp.kind = "ok" THEN resp.operationIdentifier ELSE None)
             /\ priorEnable' = (IF priorEnable = "errors" \/ lastEnable = "error" THEN "errors"
                                ELSE IF priorEnable = "conflicts"
                                        /\ lastEnable \in { "none", "conflict_in_progress" }
                                     THEN "conflicts"
                                ELSE "other")
             /\ lastEnable' = EnableClass(resp)
             /\ IF d = "retry"
                THEN /\ pc' = "backoff_sleep"
                     /\ UNCHANGED << operation_id, success, outcome, failure >>
                ELSE LET v == IF d = "return_id" THEN r ELSE None
                     IN  /\ operation_id' = v
                         /\ IF NeedsPolling(v)
                            THEN /\ pc' = "poll"
                                 /\ UNCHANGED << success, outcome, failure >>
                            ELSE Return("skipped", "True", failure)
    /\ UNCHANGED << progvars, i, attempt, poll_attempt, exit_status, nPoll, nSleep, slept,
                    lastPoll, priorNonTerminal, pollErrors >>

(* lines 82/85, 73 and 86, 104-106: the backoff sleep, then the next pass or the timeout *)
BackoffSleep ==
    /\ pc = "backoff_sleep"
    /\ nSleep' = nSleep + 1
    /\ slept' = slept + BackoffInterval
    /\ attempt' = attempt + 1
    /\ IF BackoffExhausted(attempt + 1)
       THEN Raised("Exception", "enable_timeout")
       ELSE /\ pc' = "enable"
            /\ UNCHANGED << success, outcome, failure, exit_status >>
    /\ UNCHANGED << progvars, i, operation_id, poll_attempt, req, nEnable, nPoll,
                    lastEnable, answeredId, priorEnable, lastPoll, priorNonTerminal, pollErrors >>

(* lines 49-62, 64-65 with 95-100 and 104-106: one poll up to its sleep *)
PollAttempt ==
    /\ pc = "poll"
    /\ \E resp \in PollResponses :
         LET d == PollDecision(resp)
         IN  /\ req' = [NoReq EXCEPT !.api = "get_baseline_operation", !.pos = i,
                                     !.operationIdentifier = operation_id]
             /\ nPoll' = nPoll + 1
             /\ priorNonTerminal' = (priorNonTerminal /\ lastPoll \in { "none", "nonterminal" })
             /\ lastPoll' = PollClass(resp)
             /\ pollErrors' = (pollErrors \/ resp.kind = "ClientError")
             /\ CASE d = "return_true" -> /\ Return("registered", "True", failure)
                                           /\ UNCHANGED exit_status
                  [] d = "return_false" -> /\ Return("failed", "False", "poll_failed")
                                            /\ UNCHANGED exit_status
                  [] d = "propagate" -> Raised(resp.kind, "poll_exception")
                  [] OTHER -> /\ pc' = "poll_sleep"
                              /\ UNCHANGED << success, outcome, failure, exit_status >>
    /\ UNCHANGED << progvars, i, attempt, operation_id, poll_attempt, nEnable,
                    nSleep, slept, lastEnable, answeredId, priorEnable >>

(* lines 63/66, 49 and 67, 98-100: the poll sleep, then the next poll or the timeout *)
PollSleep ==
    /\ pc = "poll_sleep"
    /\ nSleep' = nSleep + 1
    /\ slept' = slept + PollInterval
    /\ poll_attempt' = poll_attempt + 1
    /\ IF PollExhausted(poll_attempt + 1)
       THEN Return("failed", "False", "poll_timeout")
       ELSE /\ pc' = "poll"
            /\ UNCHANGED << success, outcome, failure >>
    /\ UNCHANGED << progvars, i, attempt, operation_id, exit_status, req, nEnable, nPoll,
                    lastEnable, answeredId, priorEnable, lastPoll, priorNonTerminal, pollErrors >>

Next ==
    \/ ResolveBaseline
    \/ ResolveIdentityCenter
    \/ DriverNext
    \/ DriverCheck
    \/ EnableAttempt
    \/ BackoffSleep
    \/ PollAttempt
    \/ PollSleep

Spec == Init /\ [][Next]_vars

(* ---------- the run against a control plane that remembers governed OUs ---------- *)
(* The OUs whose baseline operation this run has seen succeed. *)
Governed == { ous[p].arn : p \in { q \in 1..Len(ous) : outcome[q] = "registered" } }

(* enable-baseline on a governed OU is answered "already governed" *)
EnableAttemptGoverned ==
    /\ EnableAttempt
    /\ ous[i].arn \in Governed => lastEnable' = "already_governed"

NextGoverned ==
    \/ ResolveBaseline
    \/ ResolveIdentityCenter
    \/ DriverNext
    \/ DriverCheck
    \/ EnableAttemptGoverned
    \/ BackoffSleep
    \/ PollAttempt
    \/ PollSleep

SpecGoverned == Init /\ [][NextGoverned]_vars

(* ---------- the pure functions applied to inputs drawn from bounded sets ---------- *)
PureBaselineEntries ==
    { [name |-> n, arn |-> a] :
        n \in { "AWSControlTowerBaseline", "IdentityCenterBaseline", "AWSControlTowerBaselineV2" },
        a \in { <<"arn", "baseline", "A">>, <<"arn", "baseline", "B">> } }

PureEnabledEntries ==
    { [arn |-> a] :
        a \in { <<"arn", "enabledbaseline", "identitycenter">>,
                <<"arn", "enabledbaseline", "audit">>,
                <<"enabledbaseline", "legacy">> } }

PureInputs(f) ==
    CASE f = "get_baseline_identifier" -> SeqsUpTo(PureBaselineEntries, MaxBaselines)
      [] f = "get_identity_center_enabled_baseline_arn" -> SeqsUpTo(PureEnabledEntries, MaxBaselines)
      [] f = "enable_baseline" -> EnableResponses

PureFunctions ==
    { "get_baseline_identifier", "get_identity_center_enabled_baseline_arn", "enable_baseline" }

InitPure ==
    /\ pc = "call"
    /\ fnName \in PureFunctions
    /\ fnInput \in PureInputs(fnName)
    /\ fnOutput = <<>>
    /\ ous = << [id |-> "ou-1", arn |-> <<"arn", "ou", "1">>] >>
    /\ i = 1
    /\ baseline_identifier = <<"arn", "baseline", "controltower">>
    /\ identity_center_arn = <<"arn", "enabledbaseline", "identitycenter">>
    /\ attempt = 0
    /\ operation_id = None
    /\ poll_attempt = 0
    /\ success = "none"
    /\ exit_status = 0
    /\ outcome = [p \in 1..1 |-> "pending"]
    /\ failure = "none"
    /\ req = NoReq
    /\ nEnable = 0
    /\ nPoll = 0
    /\ nSleep = 0
    /\ slept = 0
    /\ lastEnable = "none"
    /\ answeredId = None
    /\ priorEnable = "conflicts"
    /\ lastPoll = "none"
    /\ priorNonTerminal = TRUE
    /\ pollErrors = FALSE
    /\ resolverCalls = [list_baselines |-> 0, list_enabled_baselines |-> 0]

pureFrame == << ous, i, baseline_identifier, identity_center_arn, attempt, operation_id,
                poll_attempt, success, exit_status, outcome, failure, nPoll, nSleep, slept,
                answeredId, priorEnable, lastPoll, priorNonTerminal, pollErrors, fnName,
                fnInput >>

(* lines 7-12 on the list returned by list_baselines *)
CallGetBaselineIdentifier ==
    /\ pc = "call"
    /\ fnName = "get_baseline_identifier"
    /\ fnOutput' = get_baseline_identifier(fnInput)
    /\ req' = [NoReq EXCEPT !.api = "list_baselines"]
    /\ resolverCalls' = [resolverCalls EXCEPT !.list_baselines = @ + 1]
    /\ pc' = "returned"
    /\ UNCHANGED << pureFrame, nEnable, lastEnable >>

(* lines 14-19 on the list returned by list_enabled_baselines *)
CallGetIdentityCenterArn ==
    /\ pc = "call"
    /\ fnName = "get_identity_center_enabled_baseline_arn"
    /\ fnOutput' = get_identity_center_enabled_baseline_arn(fnInput)
    /\ req' = [NoReq EXCEPT !.api = "list_enabled_baselines"]
    /\ resolverCalls' = [resolverCalls EXCEPT !.list_enabled_baselines = @ + 1]
    /\ pc' = "returned"
    /\ UNCHANGED << pureFrame, nEnable, lastEnable >>

(* lines 21-45: one call of enable_baseline, answered by fnInput *)
CallEnableBaseline ==
    /\ pc = "call"
    /\ fnName = "enable_baseline"
    /\ req' = EnableRequest(i, ous[i].arn, baseline_identifier, identity_center_arn)
    /\ nEnable' = nEnable + 1
    /\ lastEnable' = EnableClass(fnInput)
    /\ fnOutput' = enable_baseline(fnInput)
    /\ pc' = "returned"
    /\ UNCHANGED << pureFrame, resolverCalls >>

NextPure ==
    \/ CallGetBaselineIdentifier
    \/ CallGetIdentityCenterArn
    \/ CallEnableBaseline

SpecPure == InitPure /\ [][NextPure]_vars

TypeOK ==
    /\ pc \in { "resolve_baseline", "resolve_identity_center", "for_ou", "enable",
                "backoff_sleep", "poll", "poll_sleep", "check", "exited" }
    /\ ous \in OULists
    /\ i \in 0..(Len(ous) + 1)
    /\ attempt \in 0..MaxEnableAttempts
    /\ poll_attempt \in 0..MaxPollAttempts
    /\ operation_id \in OpIds \cup { None }
    /\ success \in { "none", "True", "False" }
    /\ exit_status \in { 0, 1 }
    /\ outcome \in [1..Len(ous) -> { "pending", "registered", "skipped", "failed" }]


(* ======================= properties ======================= *)
Positions == 1..Len(ous)
Succeeded(p) == outcome[p] \in { "registered", "skipped" }
Ended == pc \in { "check", "for_ou", "exited" } /\ req.pos >= 1

(* a step that sends enable-baseline or get-baseline-operation *)
IssuesRequest == nEnable' = nEnable + 1 \/ nPoll' = nPoll + 1

(* C1: once register_ou has returned false for the OU at position k, the only *)
(* step left is the exit with status 1; no request is sent for a position     *)
(* beyond k, the loop never advances past k and later OUs stay untouched.      *)
C1_HaltOnFirstFailure ==
    /\ [](\A k \in Positions : outcome[k] = "failed" =>
            /\ i = k
            /\ pc \in { "check", "exited" }
            /\ success = "False"
            /\ pc = "exited" => exit_status = 1
            /\ \A j \in Positions : j > k => outcome[j] = "pending")
    /\ [][\A k \in Positions : outcome[k] = "failed" =>
            /\ pc' = "exited"
            /\ exit_status' = 1
            /\ ~IssuesRequest
            /\ req' = req
            /\ i' = k]_vars

C1_Witness ==
    /\ Len(ous) = 2
    /\ outcome[1] = "failed"
    /\ outcome[2] = "pending"
    /\ pc = "exited"
    /\ exit_status = 1

(* C2: requests go out for one OU at a time in input order: a request for     *)
(* position p is sent only while p is the pending OU, every earlier position  *)
(* has ended as registered or skipped, no later position has been touched,    *)
(* and the position of successive requests never decreases.                   *)
C2_SequentialInOrder ==
    [][IssuesRequest =>
        /\ req'.pos = i
        /\ i \in Positions
        /\ req'.api = "enable_baseline" => req'.target = ous[i].arn
        /\ outcome[i] = "pending"
        /\ \A k \in Positions : k < i => Succeeded(k)
        /\ \A k \in Positions : k > i => outcome[k] = "pending"
        /\ req'.pos >= req.pos]_vars

C2_Witness ==
    /\ Len(ous) = 2
    /\ i = 2
    /\ req.pos = 2
    /\ req.api = "get_baseline_operation"
    /\ outcome[1] = "registered"
    /\ outcome[2] = "pending"

(* C3: when the process has ended, its status is non-zero exactly when an    *)
(* identifier was not resolved or some OU ended as failed; with status zero  *)
(* every OU of the list ended as registered or skipped.                      *)
Unresolved == baseline_identifier = NotFound \/ identity_center_arn = NotFound

C3_ExitStatus ==
    pc = "exited" =>
        /\ exit_status # 0 <=> (Unresolved \/ \E k \in Positions : outcome[k] = "failed")
        /\ exit_status = 0 => \A k \in Positions : Succeeded(k)
        /\ Unresolved => \A k \in Positions : outcome[k] = "pending"

C3_Witness ==
    /\ pc = "exited"
    /\ exit_status = 0
    /\ Len(ous) = 2
    /\ outcome[1] = "registered"
    /\ outcome[2] = "skipped"

(* C4: an "already governed" conflict answer makes register_ou return True   *)
(* for that OU at once: the OU is skipped, it is never polled, and no other  *)
(* request is sent for it.                                                   *)
C4_AlreadyGovernedSkips ==
    /\ [](lastEnable = "already_governed" =>
            /\ Ended
            /\ outcome[req.pos] = "skipped"
            /\ success = "True"
            /\ nPoll = 0
            /\ operation_id = None)
    /\ [][lastEnable = "already_governed" =>
            /\ ~IssuesRequest
            /\ req' = req]_vars

C4_Witness ==
    /\ lastEnable = "already_governed"
    /\ nEnable = 3
    /\ outcome[i] = "skipped"
    /\ pc = "check"


(* C5: N conflict-in-progress answers followed by an accepted answer with a   *)
(* normal operation id: the backoff loop returns that very id after N + 1     *)
(* enable requests and N sleeps of 60, one sleep after each rejected request. *)
OnlyConflictsSoFar ==
    priorEnable = "conflicts" /\ lastEnable \in { "none", "conflict_in_progress" }

C5_BackoffReturnsId ==
    /\ [](priorEnable = "conflicts" /\ lastEnable = "accepted" =>
            /\ nEnable \in 1..MaxEnableAttempts
            /\ attempt = nEnable - 1
            /\ operation_id = answeredId
            /\ operation_id \in OpIds
            /\ nPoll = 0 => (pc = "poll" /\ nSleep = nEnable - 1
                             /\ slept = BackoffInterval * (nEnable - 1)))
    /\ [](OnlyConflictsSoFar =>
            /\ pc = "enable" => (nEnable < MaxEnableAttempts /\ nSleep = nEnable
                                 /\ slept = BackoffInterval * nEnable)
            /\ pc = "backoff_sleep" => (nEnable <= MaxEnableAttempts /\ nSleep = nEnable - 1
                                        /\ slept = BackoffInterval * (nEnable - 1))
            /\ pc \in { "enable", "backoff_sleep" } \/ nEnable \in { 0, MaxEnableAttempts })
    /\ [][OnlyConflictsSoFar /\ nEnable' = nEnable + 1 => nSleep = nEnable]_vars

C5_Witness ==
    /\ priorEnable = "conflicts"
    /\ lastEnable = "accepted"
    /\ nEnable = MaxEnableAttempts
    /\ nSleep = MaxEnableAttempts - 1
    /\ pc = "poll"
    /\ nPoll = 0
    /\ operation_id = "op-2"

(* C6: raised errors and conflicts share the budget of 20: an enable attempt  *)
(* that raised is followed by a sleep of 60 and, within the budget, another   *)
(* attempt; the timeout is raised after exactly 20 requests and 20 sleeps,    *)
(* and a 21st request is never sent.                                          *)
C6_SharedBudget ==
    /\ [](/\ nEnable <= MaxEnableAttempts
          /\ attempt <= MaxEnableAttempts
          /\ lastEnable \in { "error", "conflict_in_progress" } =>
                \/ pc = "backoff_sleep" /\ attempt = nEnable - 1 /\ failure = "none"
                \/ pc = "enable" /\ attempt = nEnable /\ failure = "none"
                \/ failure = "enable_timeout"
          /\ failure = "enable_timeout" =>
                /\ nEnable = MaxEnableAttempts
                /\ nSleep = MaxEnableAttempts
                /\ slept = MaxEnableAttempts * BackoffInterval
                /\ nPoll = 0
                /\ outcome[req.pos] = "failed"
                /\ success = "False")
    /\ [][pc = "backoff_sleep" /\ lastEnable \in { "error", "conflict_in_progress" } =>
            /\ slept' = slept + BackoffInterval
            /\ nSleep' = nSleep + 1
            /\ IF nEnable < MaxEnableAttempts
               THEN pc' = "enable" /\ failure' = "none" /\ outcome' = outcome
               ELSE failure' = "enable_timeout" /\ pc' = "check"]_vars
    /\ [][failure = "enable_timeout" => ~IssuesRequest]_vars

C6_Witness ==
    /\ failure = "enable_timeout"
    /\ priorEnable = "errors"
    /\ lastEnable = "conflict_in_progress"
    /\ nEnable = MaxEnableAttempts
    /\ pc = "exited"

(* C7: the first terminal status decides the poller's result: after k - 1     *)
(* non-terminal statuses, SUCCEEDED at poll k gives True and FAILED gives     *)
(* False, after exactly k polls and k - 1 poll sleeps, with no poll and no    *)
(* sleep after poll k.                                                        *)
C7_FirstTerminalDecides ==
    /\ [](priorNonTerminal /\ lastPoll \in { "succeeded", "failed" } =>
            /\ Ended
            /\ nPoll \in 1..MaxPollAttempts
            /\ poll_attempt = nPoll - 1
            /\ nSleep = (nEnable - 1) + (nPoll - 1)
            /\ slept = BackoffInterval * (nEnable - 1) + PollInterval * (nPoll - 1)
            /\ lastPoll = "succeeded" => (success = "True" /\ outcome[req.pos] = "registered")
            /\ lastPoll = "failed" => (success = "False" /\ outcome[req.pos] = "failed"
                                       /\ failure = "poll_failed"))
    /\ [][(lastPoll \in { "succeeded", "failed" }) =>
            /\ nPoll' # nPoll + 1
            /\ nSleep' # nSleep + 1
            /\ slept' \in { slept, 0 }]_vars

C7_Witness ==
    /\ priorNonTerminal
    /\ lastPoll = "succeeded"
    /\ nPoll = MaxPollAttempts
    /\ success = "True"
    /\ pc = "check"

(* C8: 40 polls without a terminal status make the poller return False after  *)
(* exactly 40 requests; register_ou returns False and the batch halts.        *)
C8_PollTimeoutFails ==
    /\ [](/\ nPoll <= MaxPollAttempts
          /\ poll_attempt <= MaxPollAttempts
          /\ (priorNonTerminal /\ lastPoll = "nonterminal" /\ nPoll = MaxPollAttempts
              /\ pc # "poll_sleep") => failure = "poll_timeout"
          /\ (priorNonTerminal /\ lastPoll = "nonterminal" /\ nPoll < MaxPollAttempts) =>
                (pc \in { "poll_sleep", "poll" } /\ failure = "none")
          /\ failure = "poll_timeout" =>
                /\ nPoll = MaxPollAttempts
                /\ poll_attempt = MaxPollAttempts
                /\ success = "False"
                /\ outcome[i] = "failed"
                /\ pc \in { "check", "exited" }
                /\ pc = "exited" => exit_status = 1)
    /\ [][failure = "poll_timeout" =>
            pc' = "exited" /\ exit_status' = 1 /\ ~IssuesRequest /\ i' = i]_vars

C8_Witness ==
    /\ failure = "poll_timeout"
    /\ priorNonTerminal
    /\ lastPoll = "nonterminal"
    /\ nPoll = MaxPollAttempts
    /\ Len(ous) = 2
    /\ i = 1
    /\ pc = "exited"
    /\ exit_status = 1

(* C9: any exception raised by a poll is logged and polling goes on: the OU   *)
(* is not failed by it, the poller sleeps and, within the budget, polls again. *)
C9_PollExceptionContinues ==
    lastPoll \in { "client_error", "other_error" } =>
        \/ pc \in { "poll_sleep", "poll" } /\ failure = "none"
        \/ failure = "poll_timeout"

(* C10 as stated: an enable-baseline call that raised an unrecognized error   *)
(* aborts the run on that OU, so an OU that saw such an error ends as failed. *)
EnableErrorSeen == priorEnable = "errors" \/ lastEnable = "error"

C10_EnableErrorAborts ==
    EnableErrorSeen /\ Ended =>
        /\ outcome[req.pos] = "failed"
        /\ pc = "exited" => exit_status = 1

(* C10 amended: an unrecognized enable error is retried by the backoff loop   *)
(* after a sleep of 60; the run aborts on that OU only when the error comes   *)
(* on the 20th attempt: then the OU ends as failed, the process exits with    *)
(* status 1, no later OU is processed and the earlier OUs stay succeeded.     *)
C10_EnableErrorRetried ==
    /\ [](lastEnable = "error" =>
            /\ pc \in { "backoff_sleep", "enable", "check", "exited" }
            /\ pc \in { "backoff_sleep", "enable" } =>
                    (outcome[i] = "pending" /\ failure = "none" /\ nEnable <= MaxEnableAttempts)
            /\ pc \in { "check", "exited" } =>
                    /\ nEnable = MaxEnableAttempts
                    /\ outcome[i] = "failed"
                    /\ success = "False"
                    /\ \A k \in Positions : k < i => Succeeded(k)
                    /\ \A k \in Positions : k > i => outcome[k] = "pending"
            /\ pc = "exited" => exit_status = 1)
    /\ [][lastEnable = "error" =>
            /\ pc = "backoff_sleep" /\ nEnable < MaxEnableAttempts =>
                    (pc' = "enable" /\ slept' = slept + BackoffInterval)
            /\ pc = "check" => (pc' = "exited" /\ exit_status' = 1 /\ ~IssuesRequest)]_vars

C10_Witness ==
    /\ lastEnable = "error"
    /\ nEnable = MaxEnableAttempts
    /\ Len(ous) = 2
    /\ i = 1
    /\ outcome[1] = "failed"
    /\ outcome[2] = "pending"
    /\ pc = "exited"
    /\ exit_status = 1

(* C11: idempotence.  Against a control plane that answers "already governed" *)
(* for an OU whose operation has succeeded, registering that OU again later   *)
(* in the run ends as skipped after a single enable request: no operation id  *)
(* is created, nothing is polled and nothing is slept.                        *)
Rerun(p) ==
    \E q \in Positions : q < p /\ ous[q].arn = ous[p].arn /\ outcome[q] = "registered"

C11_Idempotent ==
    \A p \in Positions : Rerun(p) =>
        /\ outcome[p] \in { "pending", "skipped" }
        /\ (req.pos = p /\ i = p) =>
              /\ req.api = "enable_baseline"
              /\ lastEnable = "already_governed"
              /\ nEnable = 1
              /\ nPoll = 0
              /\ nSleep = 0
              /\ answeredId = None
              /\ operation_id = None
              /\ outcome[p] = "skipped"
              /\ success = "True"

C11_Witness ==
    /\ Len(ous) = 2
    /\ ous[1] = ous[2]
    /\ outcome[1] = "registered"
    /\ outcome[2] = "skipped"
    /\ req.pos = 2
    /\ i = 2
    /\ pc = "check"
    /\ lastEnable = "already_governed"

(* C12 as stated: each of the two resolvers has been called exactly once in   *)
(* every run, so also in a run that has ended.                                *)
C12_ResolversOncePerRun ==
    pc = "exited" =>
        /\ resolverCalls.list_baselines = 1
        /\ resolverCalls.list_enabled_baselines = 1

(* C12 amended: each resolver is called at most once per run and never once   *)
(* OU processing has begun; a run that gets past the resolution has called    *)
(* each exactly once, before its first enable-baseline request; every enable  *)
(* request carries the two resolved values and the version "4.0".             *)
Resolving == pc \in { "resolve_baseline", "resolve_identity_center" }

C12_ResolvedOnceAndThreaded ==
    /\ [](/\ resolverCalls.list_baselines \in { 0, 1 }
          /\ resolverCalls.list_enabled_baselines \in { 0, 1 }
          /\ resolverCalls.list_enabled_baselines = 1 => resolverCalls.list_baselines = 1
          /\ (~Resolving /\ ~Unresolved) =>
                (resolverCalls.list_baselines = 1 /\ resolverCalls.list_enabled_baselines = 1)
          /\ Unresolved => (nEnable = 0 /\ req.api # "enable_baseline")
          /\ req.api = "enable_baseline" =>
                /\ req.baselineIdentifier = baseline_identifier
                /\ req.parameter = identity_center_arn
                /\ req.baselineVersion = "4.0"
                /\ req.target = ous[req.pos].arn)
    /\ [][~Resolving =>
            /\ resolverCalls' = resolverCalls
            /\ baseline_identifier' = baseline_identifier
            /\ identity_center_arn' = identity_center_arn
            /\ req'.api \notin { "list_baselines", "list_enabled_baselines" } \/ req' = req]_vars
    /\ [][nEnable' = nEnable + 1 =>
            /\ resolverCalls = [list_baselines |-> 1, list_enabled_baselines |-> 1]
            /\ req'.api = "enable_baseline"
            /\ req'.baselineIdentifier = baseline_identifier
            /\ req'.parameter = identity_center_arn
            /\ req'.baselineVersion = "4.0"]_vars

C12_Witness ==
    /\ req.api = "enable_baseline"
    /\ req.pos = 2
    /\ nEnable = 3
    /\ req.baselineIdentifier = <<"arn", "baseline", "controltower">>
    /\ req.parameter = <<"arn", "enabledbaseline", "identitycenter">>
    /\ resolverCalls = [list_baselines |-> 1, list_enabled_baselines |-> 1]

(* C13: get_baseline_identifier fails with not-found exactly on the lists     *)
(* without an entry named "AWSControlTowerBaseline", and otherwise returns    *)
(* the arn of the entry of that name with the smallest index.                 *)
Returned(f) == fnName = f /\ pc = "returned"

MatchingBaselines(l) == { k \in 1..Len(l) : l[k].name = "AWSControlTowerBaseline" }

C13_FirstNamedBaseline ==
    Returned("get_baseline_identifier") =>
        LET m == MatchingBaselines(fnInput)
        IN  /\ m = {} => fnOutput = NotFound
            /\ m # {} => \E k \in m : /\ \A j \in m : k <= j
                                      /\ fnOutput = fnInput[k].arn

C13_Witness ==
    /\ Returned("get_baseline_identifier")
    /\ Len(fnInput) = 2
    /\ MatchingBaselines(fnInput) = { 1, 2 }
    /\ fnInput[1].arn # fnInput[2].arn
    /\ fnOutput = fnInput[1].arn

(* C14: get_identity_center_enabled_baseline_arn fails with not-found when no *)
(* entry's arn carries the identity-center marker and otherwise returns the   *)
(* first arn that carries it; it never returns another enabled baseline.      *)
IdentityCenterMarker == <<"identitycenter">>

IdentityCenterEntries(l) == { k \in 1..Len(l) : Contains(IdentityCenterMarker, l[k].arn) }

C14_IdentityCenterOnly ==
    Returned("get_identity_center_enabled_baseline_arn") =>
        LET m == IdentityCenterEntries(fnInput)
        IN  /\ m = {} => fnOutput = NotFound
            /\ m # {} => \E k \in m : /\ \A j \in m : k <= j
                                      /\ fnOutput = fnInput[k].arn

(* C16 as stated: one request per call, and the answer decides the value:     *)
(* accepted gives the answer's operationIdentifier, a conflict containing     *)
(* "already governed" gives None, a conflict containing "another operation   *)
(* is in progress" gives 'IN_PROGRESS', every other error is re-raised.       *)
IsConflict(r) == r.kind = "ClientError" /\ r.code = "ConflictException"

C16_Classification ==
    Returned("enable_baseline") =>
        /\ nEnable = 1
        /\ fnInput.kind = "ok" => fnOutput = fnInput.operationIdentifier
        /\ (IsConflict(fnInput) /\ Contains(AlreadyGoverned, fnInput.message)) =>
                fnOutput = None
        /\ (IsConflict(fnInput) /\ Contains(AnotherInProgress, fnInput.message)) =>
                fnOutput = "IN_PROGRESS"
        /\ (fnInput.kind # "ok"
            /\ ~(IsConflict(fnInput) /\ Contains(AlreadyGoverned, fnInput.message))
            /\ ~(IsConflict(fnInput) /\ Contains(AnotherInProgress, fnInput.message))) =>
                fnOutput = Raise

(* C16 amended: as stated, except that a conflict whose message contains both *)
(* phrases gives None: "already governed" is tested first.                    *)
C16_ClassificationInOrder ==
    Returned("enable_baseline") =>
        /\ nEnable = 1
        /\ req.api = "enable_baseline"
        /\ fnInput.kind = "ok" => fnOutput = fnInput.operationIdentifier
        /\ (IsConflict(fnInput) /\ Contains(AlreadyGoverned, fnInput.message)) =>
                fnOutput = None
        /\ (IsConflict(fnInput) /\ Contains(AnotherInProgress, fnInput.message)
            /\ ~Contains(AlreadyGoverned, fnInput.message)) =>
                fnOutput = "IN_PROGRESS"
        /\ (fnInput.kind # "ok"
            /\ ~(IsConflict(fnInput) /\ Contains(AlreadyGoverned, fnInput.message))
            /\ ~(IsConflict(fnInput) /\ Contains(AnotherInProgress, fnInput.message))) =>
                fnOutput = Raise

C16_Witness ==
    /\ Returned("enable_baseline")
    /\ fnInput.kind = "ClientError"
    /\ fnInput.code = "ThrottlingException"
    /\ Contains(AlreadyGoverned, fnInput.message)
    /\ fnOutput = Raise
    /\ nEnable = 1

(* C15 as stated: with the identifiers resolved, once the run has ended every *)
(* OU of the list is registered, already registered (skipped) or failed.      *)
C15_EveryOUTerminal ==
    (pc = "exited" /\ ~Unresolved) =>
        \A p \in Positions : outcome[p] \in { "registered", "skipped", "failed" }

(* C15 amended: once the run has ended, at most one OU is failed; every OU    *)
(* before it is registered or skipped and every OU after it was never         *)
(* processed; without a failed OU all of them are registered or skipped.      *)
C15_TerminalUpToFirstFailure ==
    (pc = "exited" /\ ~Unresolved) =>
        /\ \A p \in Positions :
             /\ outcome[p] \in { "pending", "registered", "skipped", "failed" }
             /\ outcome[p] = "failed" =>
                   /\ \A k \in Positions : k < p => Succeeded(k)
                   /\ \A k \in Positions : k > p => outcome[k] = "pending"
                   /\ exit_status = 1
                   /\ i = p
             /\ outcome[p] = "pending" =>
                   \E k \in Positions : k < p /\ outcome[k] = "failed"
        /\ (\A p \in Positions : outcome[p] # "failed") =>
              /\ \A p \in Positions : Succeeded(p)
              /\ exit_status = 0
              /\ i = Len(ous) + 1

C15_Witness ==
    /\ pc = "exited"
    /\ ~Unresolved
    /\ Len(ous) = 2
    /\ outcome[1] = "failed"
    /\ outcome[2] = "pending"
    /\ lastPoll = "failed"
    /\ exit_status = 1

(* C17: register_ou never raises. An exception leaving the backoff loop (its  *)
(* timeout included) or the poller is caught and turned into the result False *)
(* for the current OU, and the run only ever stops over an OU from the        *)
(* driver's test of that boolean.                                             *)
C17_RegisterOuNeverRaises ==
    /\ [](failure # "uncaught")
    /\ [][((pc = "backoff_sleep" /\ pc' # "enable")
           \/ (pc = "poll" /\ lastPoll' = "other_error"))
          => /\ pc' = "check"
             /\ success' = "False"
             /\ outcome'[i] = "failed"
             /\ exit_status' = exit_status]_vars
    /\ [][(pc' = "exited" /\ pc \in { "enable", "backoff_sleep", "poll", "poll_sleep", "check" })
          => (pc = "check" /\ success = "False")]_vars

C17_Witness ==
    /\ pc = "check"
    /\ lastPoll = "other_error"
    /\ failure = "poll_exception"
    /\ success = "False"
    /\ outcome[i] = "failed"
    /\ exit_status = 0

(* every call to the control plane answers and every sleep ends, so a step that *)
(* is possible is eventually taken                                              *)
SpecFair == Spec /\ WF_vars(Next)

(* C18: every run terminates whatever the control plane answers; for any one  *)
(* OU at most 20 enable-baseline requests and at most 40 get-baseline-        *)
(* operation requests are issued, and the time slept for it never exceeds     *)
(* 20*60 + 40*30 = 2400.                                                      *)
C18_TerminatesWithinBudgets ==
    /\ <>(pc = "exited")
    /\ [](nEnable <= 20 /\ nPoll <= 40 /\ slept <= 20 * 60 + 40 * 30)

C18_Witness ==
    /\ pc = "check"
    /\ nEnable = 20
    /\ nPoll = 40
    /\ failure = "poll_timeout"
    /\ slept = 19 * 60 + 40 * 30

(* C19: an accepted enable-baseline request whose answer carries no           *)
(* operationIdentifier is treated exactly as the "already governed" conflict: *)
(* enable_baseline and the backoff loop return None, and register_ou reports  *)
(* the OU as skipped with success True without ever polling.                  *)
C19_AcceptedWithoutIdSkips ==
    /\ [](/\ enable_baseline([kind |-> "ok", operationIdentifier |-> None]) = None
          /\ WaitDecision(None) = "return_none")
    /\ [][(pc = "enable" /\ lastEnable' \in { "accepted_noid", "already_governed" })
          => /\ operation_id' = None
             /\ outcome'[i] = "skipped"
             /\ success' = "True"
             /\ pc' = "check"
             /\ nPoll' = 0
             /\ UNCHANGED << failure, exit_status >>]_vars
    /\ [](lastEnable = "accepted_noid" => (nPoll = 0 /\ lastPoll = "none"))

C19_Witness ==
    /\ pc = "check"
    /\ lastEnable = "accepted_noid"
    /\ req.api = "enable_baseline"
    /\ answeredId = None
    /\ outcome[i] = "skipped"
    /\ success = "True"
    /\ nPoll = 0

(* C20: for every OU at most one operation is started and tracked. Once an    *)
(* enable-baseline request for the OU has been accepted, no further           *)
(* enable-baseline request is issued for it; the poller is entered at most    *)
(* once for it; and every get-baseline-operation call for it carries the      *)
(* operation id that the accepted request returned.                           *)
C20_OneOperationPerOU ==
    /\ [][(lastEnable \in { "accepted", "accepted_noid", "accepted_oddid" } /\ pc # "for_ou")
          => nEnable' = nEnable]_vars
    /\ [][(pc' = "poll") => (pc = "poll_sleep" \/ (pc = "enable" /\ nPoll = 0))]_vars
    /\ [][(nPoll' = nPoll + 1)
          => /\ req'.api = "get_baseline_operation"
             /\ lastEnable \in { "accepted", "accepted_oddid" }
             /\ req'.operationIdentifier = answeredId]_vars

====
